---- MODULE Spec2Model ----
(***************************************************************************)
(* The dynamic-batching scheduler of src/src/clip_server.py                *)
(* (CLIPEmbeddingServer): the admission queue, the batch-forming loop       *)
(* _process_batches, the dispatcher _process_batch, the callers             *)
(* embed_image_async / embed_text_async, start/stop of the task, and the    *)
(* bulk endpoint embed_texts_batch_endpoint that calls the model directly.  *)
(*                                                                         *)
(* Time is discrete, one tick = 1 ms.  Everything runs on one asyncio       *)
(* event loop: a step between two awaits is atomic, the synchronous model   *)
(* call inside _process_batch blocks every other coroutine, and time passes *)
(* only while the loop task is suspended at an await that cannot complete   *)
(* or while the model call runs.                                            *)
(***************************************************************************)
EXTENDS Integers, Sequences, FiniteSets, TLC

\* Bounds of the model.
MaxRequests == 2
MaxBatchSize == 2
MaxTimeoutMs == 2

\* Values the constructor is given (it validates nothing, so 0 is accepted).
BatchSizes == 0..MaxBatchSize
TimeoutsMs == 0..MaxTimeoutMs
\* Texts of the exceptions the model call raises.
Errors == {"e1"}
\* The "texts" lists a request body of /embed_texts_batch carries (the endpoint
\* validates nothing, so the empty list is accepted); 0 is a text of no BatchRequest.
BulkBodies == {<<>>, <<0>>}

VARIABLES
    max_batch_size,     \* self.max_batch_size
    batch_timeout_ms,   \* self.batch_timeout_ms
    request_queue,      \* self.request_queue: sequence of request ids
    processing_task,    \* self.processing_task is not None
    pc,                 \* where the background task is: none, idle, collect, embed_image, embed_text
    batch_requests,     \* the local batch_requests of _process_batches
    deadline,           \* the local deadline of _process_batches
    now,                \* loop.time() as _process_batches reads it, in ms since the first dequeue
    queued_at_first,    \* history: len(request_queue) when the cycle's first request was dequeued
    requests,           \* every BatchRequest created, by id: [request_type, data]; each caller's
                        \* payload is its own, named by the id
    response_queue,     \* per request: its response_queue (unread results)
    delivered,          \* history, per request: every result ever put on its response_queue
    caller,             \* per request: what embed_*_async has done: waiting, returned, raised
    waited,             \* history, per request: ticks in the queue/batch while the task runs
    last_batch,         \* history: the batch most recently formed (handed over or dropped)
    calls,              \* history: the model invocations made for last_batch, in order
    live_tasks,         \* history: background tasks created and not cancelled
    batched,            \* history, per request: times a get() of the loop returned it
    bulk                \* the call of _embed_texts_batch by embed_texts_batch_endpoint:
                        \* [running, texts]

vars == <<max_batch_size, batch_timeout_ms, request_queue, processing_task, pc,
          batch_requests, deadline, now, queued_at_first, requests, response_queue,
          delivered, caller, waited, last_batch, calls, live_tasks, batched, bulk>>

config == <<max_batch_size, batch_timeout_ms>>
loopvars == <<pc, batch_requests, deadline, queued_at_first>>
callervars == <<requests, response_queue, delivered, caller>>
history == <<last_batch, calls>>

Min(a, b) == IF a < b THEN a ELSE b

Range(s) == {s[i] : i \in DOMAIN s}

\* ---------------------------------------------------------------- results

Success(embedding) == [success |-> TRUE, embedding |-> embedding, error |-> "none"]

Failure(e) == [success |-> FALSE, embedding |-> <<>>, error |-> e]

\* The vector the model computes for one input: an opaque token of the input.
Embedding(kind, x) == <<kind, x>>

\* _embed_images_batch / _embed_texts_batch when they return: one vector per input.
EmbedBatch(kind, inputs) == [i \in 1..Len(inputs) |-> Embedding(kind, inputs[i])]

\* No call of embed_texts_batch_endpoint is running.
NoBulk == [running |-> FALSE, texts |-> <<>>]

\* ---------------------------------------------------------------- construction

Init ==
    /\ max_batch_size \in BatchSizes
    /\ batch_timeout_ms \in TimeoutsMs
    /\ request_queue = <<>>
    /\ processing_task = FALSE
    /\ pc = "none"
    /\ batch_requests = <<>>
    /\ deadline = 0
    /\ now = 0
    /\ queued_at_first = 0
    /\ requests = <<>>
    /\ response_queue = <<>>
    /\ delivered = <<>>
    /\ caller = <<>>
    /\ waited = <<>>
    /\ last_batch = [formed |-> FALSE, requests |-> <<>>, cancelled |-> FALSE,
                     at |-> 0, deadline |-> 0, faulted |-> FALSE]
    /\ calls = <<>>
    /\ live_tasks = 0
    /\ batched = <<>>
    /\ bulk = NoBulk

\* Mutant: the model calls run off the event loop, which stays free.
LoopFreeAlways == TRUE

\* The event loop is free unless a synchronous model call is running on it: the one
\* of _process_batch or the one of embed_texts_batch_endpoint.
LoopFree == pc \notin {"embed_image", "embed_text"} /\ ~bulk.running

\* ---------------------------------------------------------------- start / stop

\* Mutant: start_processing creates a task whether or not one is recorded.
StartProcessingUnguarded ==
    /\ LoopFree
    /\ processing_task' = TRUE
    /\ live_tasks' = live_tasks + 1
    /\ pc' = IF pc = "none" THEN "idle" ELSE pc
    /\ UNCHANGED <<config, batched, bulk, request_queue, batch_requests, deadline, now,
                   queued_at_first, callervars, waited, history>>

\* Lines 59-63: start_processing creates the task unless one is recorded.
StartProcessing ==
    /\ LoopFree
    /\ processing_task = FALSE
    /\ processing_task' = TRUE
    /\ live_tasks' = live_tasks + 1
    /\ pc' = "idle"
    /\ UNCHANGED <<config, batched, bulk, request_queue, batch_requests, deadline, now, queued_at_first,
                   callervars, waited, history>>

\* The record of a formation cycle in the history.
BatchRecord(reqs, cancelled) ==
    [formed |-> TRUE, requests |-> reqs, cancelled |-> cancelled,
     at |-> now, deadline |-> deadline, faulted |-> FALSE]

\* Mutant: stop_processing also fails and removes the requests still queued.
StopProcessingDrain ==
    /\ LoopFree
    /\ processing_task = TRUE
    /\ processing_task' = FALSE
    /\ live_tasks' = live_tasks - 1
    /\ pc' = "none"
    /\ batch_requests' = <<>>
    /\ deadline' = 0
    /\ now' = 0
    /\ queued_at_first' = 0
    /\ last_batch' = IF batch_requests = <<>> THEN last_batch
                     ELSE BatchRecord(batch_requests, TRUE)
    /\ waited' = [r \in DOMAIN waited |-> 0]
    /\ calls' = IF batch_requests = <<>> THEN calls ELSE <<>>
    /\ request_queue' = <<>>
    /\ response_queue' = [r \in DOMAIN response_queue |->
                             IF r \in Range(request_queue)
                             THEN Append(response_queue[r], Failure("shutdown"))
                             ELSE response_queue[r]]
    /\ delivered' = [r \in DOMAIN delivered |->
                        IF r \in Range(request_queue)
                        THEN Append(delivered[r], Failure("shutdown"))
                        ELSE delivered[r]]
    /\ UNCHANGED <<config, batched, bulk, requests, caller>>

\* task.cancel() raises CancelledError at the await the task is suspended in; the
\* handler of line 100 breaks out of the loop and batch_requests is dropped.
StopProcessing ==
    /\ LoopFree
    /\ processing_task = TRUE
    /\ processing_task' = FALSE
    /\ live_tasks' = live_tasks - 1
    /\ pc' = "none"
    /\ batch_requests' = <<>>
    /\ deadline' = 0
    /\ now' = 0
    /\ queued_at_first' = 0
    /\ last_batch' = IF batch_requests = <<>> THEN last_batch
                     ELSE BatchRecord(batch_requests, TRUE)
    /\ waited' = [r \in DOMAIN waited |-> IF r \in Range(batch_requests) THEN 0 ELSE waited[r]]
    /\ calls' = IF batch_requests = <<>> THEN calls ELSE <<>>
    /\ UNCHANGED <<config, batched, bulk, request_queue, callervars>>

\* ---------------------------------------------------------------- callers

\* embed_image_async / embed_text_async up to the await of response_queue.get().
Submit(kind) ==
    /\ LoopFree
    /\ Len(requests) < MaxRequests
    /\ requests' = Append(requests, [request_type |-> kind, data |-> Len(requests) + 1])
    /\ response_queue' = Append(response_queue, <<>>)
    /\ delivered' = Append(delivered, <<>>)
    /\ caller' = Append(caller, [state |-> "waiting", value |-> <<>>])
    /\ waited' = Append(waited, 0)
    /\ batched' = Append(batched, 0)
    /\ request_queue' = Append(request_queue, Len(requests) + 1)
    /\ UNCHANGED <<config, live_tasks, bulk, processing_task, loopvars, now, history>>

EmbedImageAsync == Submit("image")

EmbedTextAsync == Submit("text")

\* What embed_*_async does with the result it read: return the vector or raise.
CallerOutcome(result) ==
    IF result.success
    THEN [state |-> "returned", value |-> result.embedding]
    ELSE [state |-> "raised", value |-> result.error]

\* The rest of embed_*_async: result = await response_queue.get(), then return or raise.
CallerReceive(r) ==
    /\ LoopFree
    /\ caller[r].state = "waiting"
    /\ response_queue[r] # <<>>
    /\ caller' = [caller EXCEPT ![r] = CallerOutcome(Head(response_queue[r]))]
    /\ response_queue' = [response_queue EXCEPT ![r] = Tail(@)]
    /\ UNCHANGED <<config, batched, live_tasks, bulk, request_queue, processing_task, loopvars, now, requests,
                   delivered, waited, history>>

\* ---------------------------------------------------------------- _process_batches

\* Line 77: first_request = await self.request_queue.get(); lines 80-84 start the
\* batch and compute the deadline (the clock is read relative to this instant).
GetFirst ==
    /\ LoopFree
    /\ pc = "idle"
    /\ request_queue # <<>>
    /\ batch_requests' = <<Head(request_queue)>>
    /\ request_queue' = Tail(request_queue)
    /\ batched' = [batched EXCEPT ![Head(request_queue)] = @ + 1]
    /\ queued_at_first' = Len(request_queue)
    /\ now' = 0
    /\ deadline' = 0 + batch_timeout_ms
    /\ pc' = "collect"
    /\ UNCHANGED <<config, live_tasks, bulk, processing_task, callervars, waited, history>>

\* Mutant: the size test lets one request too many in.
LoopConditionOffByOne == Len(batch_requests) <= max_batch_size /\ now < deadline

\* Mutant: the loop gives up as soon as the queue is empty instead of waiting.
LoopConditionNoWait ==
    Len(batch_requests) < max_batch_size /\ now < deadline /\ request_queue # <<>>

\* Line 86: the condition of the collecting while loop.
LoopCondition == Len(batch_requests) < max_batch_size /\ now < deadline

\* Mutant: the new request goes to the front of the batch.
PrependRequest(batch, r) == <<r>> \o batch

\* Line 93: batch_requests.append(request).
AppendRequest(batch, r) == Append(batch, r)

\* Mutant: every request that joins the batch restarts the collecting window.
CollectMoreExtends ==
    /\ LoopFree
    /\ pc = "collect"
    /\ LoopCondition
    /\ deadline - now > 0
    /\ request_queue # <<>>
    /\ batch_requests' = AppendRequest(batch_requests, Head(request_queue))
    /\ request_queue' = Tail(request_queue)
    /\ batched' = [batched EXCEPT ![Head(request_queue)] = @ + 1]
    /\ deadline' = now + batch_timeout_ms
    /\ UNCHANGED <<config, live_tasks, bulk, processing_task, pc, now, queued_at_first,
                   callervars, waited, history>>

\* Lines 88-93: wait_for(request_queue.get(), remaining_time) yields a request.
CollectMore ==
    /\ LoopFree
    /\ pc = "collect"
    /\ LoopCondition
    /\ deadline - now > 0
    /\ request_queue # <<>>
    /\ batch_requests' = AppendRequest(batch_requests, Head(request_queue))
    /\ request_queue' = Tail(request_queue)
    /\ batched' = [batched EXCEPT ![Head(request_queue)] = @ + 1]
    /\ UNCHANGED <<config, live_tasks, bulk, processing_task, pc, deadline, now, queued_at_first,
                   callervars, waited, history>>

\* ---------------------------------------------------------------- _process_batch

\* Lines 109-110: the requests of one kind, in the batch's order.
ImageRequests(batch) == SelectSeq(batch, LAMBDA r : requests[r].request_type = "image")

\* Mutant: the text partition is not filtered by kind.
TextRequestsUnfiltered(batch) == batch

TextRequests(batch) == SelectSeq(batch, LAMBDA r : requests[r].request_type = "text")

\* Lines 114, 122: [r.data for r in ...].
Data(reqs) == [i \in 1..Len(reqs) |-> requests[reqs[i]].data]

\* Mutant: the vectors are paired with the requests in the opposite order.
PutSuccessReversed(queues, reqs, embeddings) ==
    [r \in DOMAIN queues |->
        IF \E i \in 1..Min(Len(reqs), Len(embeddings)) : reqs[i] = r
        THEN LET i == CHOOSE j \in 1..Min(Len(reqs), Len(embeddings)) : reqs[j] = r
             IN  Append(queues[r], Success(embeddings[Len(embeddings) + 1 - i]))
        ELSE queues[r]]

\* Lines 117-118, 125-126: zip(requests, embeddings), one Success put per pair.
PutSuccess(queues, reqs, embeddings) ==
    [r \in DOMAIN queues |->
        IF \E i \in 1..Min(Len(reqs), Len(embeddings)) : reqs[i] = r
        THEN LET i == CHOOSE j \in 1..Min(Len(reqs), Len(embeddings)) : reqs[j] = r
             IN  Append(queues[r], Success(embeddings[i]))
        ELSE queues[r]]

\* Mutant: only the first request of the batch is told of the failure.
PutFailureFirstOnly(queues, batch, e) ==
    [r \in DOMAIN queues |->
        IF batch # <<>> /\ r = batch[1] THEN Append(queues[r], Failure(e)) ELSE queues[r]]

\* Mutant: a fixed message is sent instead of the text of the exception.
PutFailureGeneric(queues, batch, e) ==
    [r \in DOMAIN queues |->
        IF r \in Range(batch) THEN Append(queues[r], Failure("error")) ELSE queues[r]]

\* Lines 131-132: the Failure put on the queue of every request of the batch.
PutFailure(queues, batch, e) ==
    [r \in DOMAIN queues |->
        IF r \in Range(batch) THEN Append(queues[r], Failure(e)) ELSE queues[r]]

\* An invocation of the model for one kind, as recorded in the history.
Call(kind, reqs) ==
    [kind |-> kind, inputs |-> Data(reqs), outcome |-> "running", error |-> "none"]

SetOutcome(cs, outcome, e) ==
    [cs EXCEPT ![Len(cs)] = [@ EXCEPT !.outcome = outcome, !.error = e]]

\* _process_batch is over: back to line 77 for the next cycle.
FinishBatch ==
    /\ pc' = "idle"
    /\ batch_requests' = <<>>

\* Lines 86-98 and 109-115/123: the while loop ends (size reached, deadline reached,
\* or wait_for timed out), the batch is handed to _process_batch, which partitions
\* it and enters the first model call.
Dispatch ==
    /\ LoopFree
    /\ pc = "collect"
    /\ ~LoopCondition
    /\ last_batch' = BatchRecord(batch_requests, FALSE)
    /\ waited' = [r \in DOMAIN waited |-> IF r \in Range(batch_requests) THEN 0 ELSE waited[r]]
    /\ IF ImageRequests(batch_requests) # <<>>
       THEN /\ pc' = "embed_image"
            /\ calls' = <<Call("image", ImageRequests(batch_requests))>>
       ELSE /\ pc' = "embed_text"
            /\ calls' = <<Call("text", TextRequests(batch_requests))>>
    /\ deadline' = 0
    /\ now' = 0
    /\ queued_at_first' = 0
    /\ UNCHANGED <<config, batched, live_tasks, bulk, request_queue, processing_task, batch_requests, callervars>>

\* Line 115 returns; lines 117-118 deliver; line 121 goes on to the text partition.
ImageReturns ==
    /\ pc = "embed_image"
    /\ LET image_requests == ImageRequests(batch_requests)
           text_requests == TextRequests(batch_requests)
           embeddings == EmbedBatch("image", Data(image_requests))
       IN  /\ response_queue' = PutSuccess(response_queue, image_requests, embeddings)
           /\ delivered' = PutSuccess(delivered, image_requests, embeddings)
           /\ IF text_requests # <<>>
              THEN /\ calls' = Append(SetOutcome(calls, "returned", "none"),
                                      Call("text", text_requests))
                   /\ pc' = "embed_text"
                   /\ UNCHANGED batch_requests
              ELSE /\ calls' = SetOutcome(calls, "returned", "none")
                   /\ FinishBatch
    /\ UNCHANGED <<config, batched, live_tasks, bulk, request_queue, processing_task, deadline, now, queued_at_first,
                   requests, caller, waited, last_batch>>

\* Line 115 raises; lines 128-132 put a Failure on every request of the batch.
ImageRaises(e) ==
    /\ pc = "embed_image"
    /\ response_queue' = PutFailure(response_queue, batch_requests, e)
    /\ delivered' = PutFailure(delivered, batch_requests, e)
    /\ calls' = SetOutcome(calls, "raised", e)
    /\ FinishBatch
    /\ UNCHANGED <<config, batched, live_tasks, bulk, request_queue, processing_task, deadline, now, queued_at_first,
                   requests, caller, waited, last_batch>>

\* Line 123 returns; lines 125-126 deliver.
TextReturns ==
    /\ pc = "embed_text"
    /\ LET text_requests == TextRequests(batch_requests)
           embeddings == EmbedBatch("text", Data(text_requests))
       IN  /\ response_queue' = PutSuccess(response_queue, text_requests, embeddings)
           /\ delivered' = PutSuccess(delivered, text_requests, embeddings)
    /\ calls' = SetOutcome(calls, "returned", "none")
    /\ FinishBatch
    /\ UNCHANGED <<config, batched, live_tasks, bulk, request_queue, processing_task, deadline, now, queued_at_first,
                   requests, caller, waited, last_batch>>

\* Mutant: after the Failure the requests of the batch are put back on the queue.
TextRaisesRequeue(e) ==
    /\ pc = "embed_text"
    /\ response_queue' = PutFailure(response_queue, batch_requests, e)
    /\ delivered' = PutFailure(delivered, batch_requests, e)
    /\ calls' = SetOutcome(calls, "raised", e)
    /\ request_queue' = request_queue \o batch_requests
    /\ FinishBatch
    /\ UNCHANGED <<config, batched, live_tasks, bulk, processing_task, deadline, now,
                   queued_at_first, requests, caller, waited, last_batch>>

\* Line 123 raises; lines 128-132 put a Failure on every request of the batch.
TextRaises(e) ==
    /\ pc = "embed_text"
    /\ response_queue' = PutFailure(response_queue, batch_requests, e)
    /\ delivered' = PutFailure(delivered, batch_requests, e)
    /\ calls' = SetOutcome(calls, "raised", e)
    /\ FinishBatch
    /\ UNCHANGED <<config, batched, live_tasks, bulk, request_queue, processing_task, deadline, now, queued_at_first,
                   requests, caller, waited, last_batch>>

\* ---------------------------------------------------------------- loop-level handler

\* Mutant: the handler of line 102 leaves the loop as the one of line 100 does.
LoopFaultBreaks ==
    /\ LoopFree
    /\ pc = "collect"
    /\ pc' = "none"
    /\ batch_requests' = <<>>
    /\ deadline' = 0
    /\ now' = 0
    /\ queued_at_first' = 0
    /\ last_batch' = [BatchRecord(batch_requests, TRUE) EXCEPT !.faulted = TRUE]
    /\ waited' = [r \in DOMAIN waited |-> IF r \in Range(batch_requests) THEN 0 ELSE waited[r]]
    /\ calls' = <<>>
    /\ UNCHANGED <<config, batched, live_tasks, bulk, request_queue, processing_task, callervars>>

\* Lines 102-103: an Exception other than CancelledError raised at an await of the
\* collecting loop reaches the handler of _process_batches, which logs it; the
\* while True loop goes back to line 77 and the local batch_requests is rebound.
LoopFault ==
    /\ LoopFree
    /\ pc = "collect"
    /\ pc' = "idle"
    /\ batch_requests' = <<>>
    /\ deadline' = 0
    /\ now' = 0
    /\ queued_at_first' = 0
    /\ last_batch' = [BatchRecord(batch_requests, TRUE) EXCEPT !.faulted = TRUE]
    /\ waited' = [r \in DOMAIN waited |-> IF r \in Range(batch_requests) THEN 0 ELSE waited[r]]
    /\ calls' = <<>>
    /\ UNCHANGED <<config, batched, live_tasks, bulk, request_queue, processing_task, callervars>>

\* ---------------------------------------------------------------- bulk path

\* Mutant: the endpoint submits its texts through the queue, one BatchRequest each.
EmbedTextsBatchEndpointQueued(texts) ==
    /\ LoopFree
    /\ Len(requests) < MaxRequests
    /\ bulk' = [running |-> TRUE, texts |-> texts]
    /\ IF texts = <<>>
       THEN UNCHANGED <<request_queue, callervars, waited, batched>>
       ELSE /\ requests' = Append(requests, [request_type |-> "text", data |-> texts[1]])
            /\ response_queue' = Append(response_queue, <<>>)
            /\ delivered' = Append(delivered, <<>>)
            /\ caller' = Append(caller, [state |-> "waiting", value |-> <<>>])
            /\ waited' = Append(waited, 0)
            /\ batched' = Append(batched, 0)
            /\ request_queue' = Append(request_queue, Len(requests) + 1)
    /\ UNCHANGED <<config, live_tasks, processing_task, loopvars, now, history>>

\* Lines 244-248: embed_texts_batch_endpoint reads data["texts"] and calls
\* clip_server._embed_texts_batch(texts) synchronously on the event loop.  (Requests
\* of either endpoint arrive only until the MaxRequests-th BatchRequest is made.)
EmbedTextsBatchEndpoint(texts) ==
    /\ LoopFree
    /\ Len(requests) < MaxRequests
    /\ bulk' = [running |-> TRUE, texts |-> texts]
    /\ UNCHANGED <<config, batched, live_tasks, request_queue, processing_task, loopvars, now,
                   callervars, waited, history>>

\* Lines 248-250: the call returns and the embeddings are the response.
BulkReturns ==
    /\ bulk.running
    /\ bulk' = NoBulk
    /\ UNCHANGED <<config, batched, live_tasks, request_queue, processing_task, loopvars, now,
                   callervars, waited, history>>

\* Lines 252-254: the call raises and the response is the error, status 500.
BulkRaises ==
    /\ bulk.running
    /\ bulk' = NoBulk
    /\ UNCHANGED <<config, batched, live_tasks, request_queue, processing_task, loopvars, now,
                   callervars, waited, history>>

\* ---------------------------------------------------------------- time

\* The task is suspended at line 92 with an empty queue before the deadline, or a
\* model call runs.  (While the task waits at line 77 the queue is empty and nothing
\* reads the clock.)
TimeCanPass ==
    \/ pc = "collect" /\ LoopCondition /\ request_queue = <<>>
    \/ pc \in {"embed_image", "embed_text"}
    \/ bulk.running

\* One millisecond passes.
Tick ==
    /\ TimeCanPass
    /\ now' = IF pc = "collect" /\ now < deadline THEN now + 1 ELSE now
    /\ waited' = [r \in DOMAIN waited |->
                    IF r \in Range(request_queue) \cup Range(batch_requests)
                    THEN Min(waited[r] + 1, batch_timeout_ms + 1)
                    ELSE waited[r]]
    /\ UNCHANGED <<config, batched, live_tasks, bulk, request_queue, processing_task, loopvars, callervars, history>>

\* ---------------------------------------------------------------- specification

Next ==
    \/ StartProcessing
    \/ StopProcessing
    \/ EmbedImageAsync
    \/ EmbedTextAsync
    \/ \E r \in DOMAIN caller : CallerReceive(r)
    \/ GetFirst
    \/ CollectMore
    \/ Dispatch
    \/ ImageReturns
    \/ \E e \in Errors : ImageRaises(e)
    \/ TextReturns
    \/ \E e \in Errors : TextRaises(e)
    \/ LoopFault
    \/ \E texts \in BulkBodies : EmbedTextsBatchEndpoint(texts)
    \/ BulkReturns
    \/ BulkRaises
    \/ Tick

Spec == Init /\ [][Next]_vars

\* The same program where stop_processing is never called, no await of the loop
\* raises and /embed_texts_batch is not requested: the event loop runs every task
\* that can run, every model call returns or raises, and the clock advances.
NextLive ==
    \/ StartProcessing
    \/ EmbedImageAsync
    \/ EmbedTextAsync
    \/ \E r \in DOMAIN caller : CallerReceive(r)
    \/ GetFirst
    \/ CollectMore
    \/ Dispatch
    \/ ImageReturns
    \/ \E e \in Errors : ImageRaises(e)
    \/ TextReturns
    \/ \E e \in Errors : TextRaises(e)
    \/ Tick

LiveSpec ==
    /\ Init
    /\ [][NextLive]_vars
    /\ WF_vars(GetFirst)
    /\ WF_vars(CollectMore)
    /\ WF_vars(Dispatch)
    /\ WF_vars(ImageReturns \/ \E e \in Errors : ImageRaises(e))
    /\ WF_vars(TextReturns \/ \E e \in Errors : TextRaises(e))
    /\ WF_vars(Tick)
    /\ \A r \in 1..MaxRequests : WF_vars(r \in DOMAIN caller /\ CallerReceive(r))

\* ---------------------------------------------------------------- properties

Embedding_states == {"embed_image", "embed_text"}

\* The last batch was handed to _process_batch (not dropped by a cancellation).
Handed == last_batch.formed /\ ~last_batch.cancelled

\* _process_batch has returned for the last batch.
BatchDone == Handed /\ pc \notin Embedding_states

\* The step in which _process_batches hands batch_requests to _process_batch.
Handoff == pc = "collect" /\ pc' \in Embedding_states

HasCall(kind, outcome) ==
    \E i \in DOMAIN calls : calls[i].kind = kind /\ calls[i].outcome = outcome

OwnSuccess(r) == Success(Embedding(requests[r].request_type, requests[r].data))

\* C1: every request of a batch that _process_batch has processed has had its
\* response_queue written exactly once, and no response_queue is ever written twice.
C1_ExactlyOneResult ==
    \A r \in DOMAIN delivered :
        /\ Len(delivered[r]) <= 1
        /\ (BatchDone /\ r \in Range(last_batch.requests)) => Len(delivered[r]) = 1

\* C2: in a batch with both kinds, when one kind's model call raises, the other
\* kind's model call is still made, and when that call returns each request of the
\* other kind receives its Success and nothing else.
C2_KindsIndependent ==
    LET image_requests == ImageRequests(last_batch.requests)
        text_requests == TextRequests(last_batch.requests)
    IN  (BatchDone /\ image_requests # <<>> /\ text_requests # <<>>) =>
            /\ HasCall("image", "raised") =>
                   /\ \E i \in DOMAIN calls : calls[i].kind = "text"
                   /\ HasCall("text", "returned") =>
                          \A r \in Range(text_requests) : delivered[r] = <<OwnSuccess(r)>>
            /\ (HasCall("text", "raised") /\ HasCall("image", "returned")) =>
                   \A r \in Range(image_requests) : delivered[r] = <<OwnSuccess(r)>>

\* C3: under LiveSpec (the task is never stopped, every model call returns or
\* raises), once the task runs every caller that has submitted a request eventually
\* gets a result: its embed_*_async returns the vector or raises.
C3_EverySubmitUnblocks ==
    \A r \in 1..MaxRequests :
        (r \in DOMAIN caller /\ processing_task)
            ~> (r \in DOMAIN caller /\ caller[r].state # "waiting")

\* C3 witness: one caller has returned its vector and another has raised.
C3_CallersReturnedAndRaised ==
    \E r1, r2 \in DOMAIN caller :
        caller[r1].state = "returned" /\ caller[r2].state = "raised"

\* C4: every request the loop has dequeued, whether its batch was still being
\* collected or already handed to _process_batch when the task was cancelled, gets a
\* result: a request that is neither in request_queue nor in a batch in progress has
\* had its response_queue written.
C4_NoDequeuedRequestLost ==
    \A r \in DOMAIN requests :
        (r \notin Range(request_queue) /\ r \notin Range(batch_requests))
            => delivered[r] # <<>>

\* C5 as stated: every batch handed to _process_batch has between 1 and
\* max_batch_size requests, whatever max_batch_size the constructor was given.
C5_BatchSizeAtMostMax ==
    Handed => (1 <= Len(last_batch.requests) /\ Len(last_batch.requests) <= max_batch_size)

\* C5 amended: every batch handed to _process_batch has at least 1 request; it has
\* at most max_batch_size requests when max_batch_size >= 1, and exactly one
\* request when max_batch_size < 1.
C5_BatchSizeBounds ==
    Handed =>
        /\ Len(last_batch.requests) >= 1
        /\ max_batch_size >= 1 => Len(last_batch.requests) <= max_batch_size
        /\ max_batch_size < 1 => Len(last_batch.requests) = 1

\* C5 witness: a batch of exactly max_batch_size >= 2 requests was handed over.
C5_FullBatchHanded ==
    Handed /\ max_batch_size >= 2 /\ Len(last_batch.requests) = max_batch_size

\* C6: when at least max_batch_size (>= 1) requests were in request_queue at the
\* cycle's first dequeue, the batch handed to _process_batch has exactly
\* max_batch_size requests, for every batch_timeout_ms.
C6_FullBatchWhenQueued ==
    [][(Handoff /\ max_batch_size >= 1 /\ queued_at_first >= max_batch_size)
          => Len(batch_requests) = max_batch_size]_vars

\* C7: a batch is never handed to _process_batch early: at the handoff it has
\* reached max_batch_size or the clock is at or past the deadline.
C7_NeverDispatchedEarly ==
    Handed =>
        \/ Len(last_batch.requests) >= max_batch_size
        \/ last_batch.at >= last_batch.deadline

\* C7 witness: a batch with fewer than max_batch_size requests was handed over at
\* its deadline, after a wait of at least one tick.
C7_ShortBatchAtDeadline ==
    /\ Handed
    /\ Len(last_batch.requests) < max_batch_size
    /\ last_batch.deadline >= 1
    /\ last_batch.at = last_batch.deadline

\* C8: at the handoff of a batch no request of it has waited more than
\* batch_timeout_ms ticks since it was enqueued.
C8_LatencyBounded ==
    [][Handoff => \A r \in Range(batch_requests) : waited[r] <= batch_timeout_ms]_vars

Consecutive(s) == \A i \in 1..(Len(s) - 1) : s[i + 1] = s[i] + 1

\* The last batch formed, the batch being collected and the queue, in that order.
Pipeline ==
    last_batch.requests
      \o (IF pc \in Embedding_states THEN <<>> ELSE batch_requests)
      \o request_queue

\* C9: requests enter batches in the order they were put on request_queue (ids are
\* given in put order): the last batch, the batch being collected and the queue,
\* read in that order, list consecutive ids up to the newest request, starting at 1
\* while no batch has been formed; so each batch continues where the previous ended.
C9_FifoAdmission ==
    /\ Consecutive(Pipeline)
    /\ Pipeline # <<>> => Pipeline[Len(Pipeline)] = Len(requests)
    /\ (~last_batch.formed /\ Pipeline # <<>>) => Pipeline[1] = 1
    /\ Pipeline = <<>> => requests = <<>>

\* C9 witness: requests 1 and 2 were handed over in one batch, in enqueue order.
C9_BatchInEnqueueOrder == Handed /\ last_batch.requests = <<1, 2>>

\* The requests of the last batch with the kind of the given call.
Partition(call) ==
    IF call.kind = "image" THEN ImageRequests(last_batch.requests)
    ELSE TextRequests(last_batch.requests)

\* C10: when the model call for a partition raises, every request of the partition
\* has received exactly the Failure with the text of the exception, every caller
\* that read a Failure raised with the text it carries, and the task is still in
\* its loop (it is gone only when stop_processing cancelled it).
C10_FailureReachesPartition ==
    /\ \A i \in DOMAIN calls :
           (Handed /\ calls[i].outcome = "raised") =>
               \A r \in Range(Partition(calls[i])) :
                   /\ delivered[r] = <<Failure(calls[i].error)>>
                   /\ caller[r].state # "waiting" =>
                          caller[r] = [state |-> "raised", value |-> calls[i].error]
    /\ \A r \in DOMAIN caller :
           (caller[r].state # "waiting" /\ ~delivered[r][1].success) =>
               caller[r] = [state |-> "raised", value |-> delivered[r][1].error]
    /\ processing_task => pc # "none"

\* C10 witness: the text call for a batch of two text requests raised, both callers
\* raised with its text, and the task is back at line 77 waiting for requests.
C10_BothCallersRaised ==
    /\ Handed
    /\ processing_task
    /\ pc = "idle"
    /\ last_batch.requests = <<1, 2>>
    /\ Len(calls) = 1
    /\ calls[1].kind = "text"
    /\ calls[1].outcome = "raised"
    /\ caller[1] = [state |-> "raised", value |-> calls[1].error]
    /\ caller[2] = caller[1]

Kinds == {"image", "text"}

\* The positions of the last batch that hold a request of the kind.
KindPositions(kind) ==
    {i \in DOMAIN last_batch.requests :
        requests[last_batch.requests[i]].request_type = kind}

\* The number of model invocations of the kind made for the last batch.
CallsOf(kind) == Cardinality({i \in DOMAIN calls : calls[i].kind = kind})

\* C11: once _process_batch has returned for a batch, whatever the outcome of its
\* model calls, the model has been invoked exactly once for each kind that has a
\* request in the batch.
C11_EachKindCalledOnce ==
    BatchDone => \A kind \in Kinds : KindPositions(kind) # {} => CallsOf(kind) = 1

\* C12: no invocation of the model has zero inputs, neither a per-kind call of
\* _process_batch nor the call embed_texts_batch_endpoint makes.
C12_NoEmptyInvocation ==
    /\ \A i \in DOMAIN calls : calls[i].inputs # <<>>
    /\ bulk.running => bulk.texts # <<>>

\* C13: the inputs of each model invocation are the payloads of the batch's requests
\* of that kind, all of them and no other, in the order they have in the batch.
C13_InputsAreKindSubsequence ==
    \A c \in DOMAIN calls :
        LET positions == KindPositions(calls[c].kind)
            Nth(j) == CHOOSE i \in positions :
                          Cardinality({k \in positions : k <= i}) = j
        IN  /\ Len(calls[c].inputs) = Cardinality(positions)
            /\ \A j \in 1..Len(calls[c].inputs) :
                   calls[c].inputs[j] = requests[last_batch.requests[Nth(j)]].data

\* A batch of a text request followed by an image request: the image call was made
\* first with the second payload, the text call then with the first.
C13_MixedBatchGrouped ==
    /\ Len(calls) = 2
    /\ last_batch.requests = <<1, 2>>
    /\ requests[1].request_type = "text"
    /\ calls[1].kind = "image" /\ calls[1].inputs = <<2>>
    /\ calls[2].kind = "text" /\ calls[2].inputs = <<1>>

\* C14: every Success ever put on a request's response_queue carries the vector of
\* that request's own payload, and a caller that returned has returned that vector.
C14_EachCallerGetsOwnVector ==
    \A r \in DOMAIN requests :
        /\ \A k \in DOMAIN delivered[r] :
               delivered[r][k].success => delivered[r][k] = OwnSuccess(r)
        /\ caller[r].state = "returned" =>
               caller[r].value = Embedding(requests[r].request_type, requests[r].data)

\* Two requests of one kind were embedded by one call and both callers returned.
C14_TwoCallersOneCall ==
    /\ last_batch.requests = <<1, 2>>
    /\ Len(calls) = 1 /\ calls[1].outcome = "returned" /\ Len(calls[1].inputs) = 2
    /\ caller[1].state = "returned" /\ caller[2].state = "returned"

\* C15: a step in which the handler of line 102 has caught an exception leaves the
\* task at line 77 with no batch (fresh Idle) and still recorded, and the only step
\* that ends the loop is the cancellation stop_processing makes.
C15_OnlyCancellationEndsLoop ==
    [][/\ (last_batch' # last_batch /\ last_batch'.faulted) =>
              pc' = "idle" /\ batch_requests' = <<>> /\ processing_task'
       /\ (pc # "none" /\ pc' = "none") => (processing_task /\ ~processing_task')]_vars

\* After an exception dropped a batch, the loop has dequeued the first request of
\* the next one.
C15_CollectingAfterFault ==
    /\ last_batch.faulted
    /\ processing_task
    /\ pc = "collect"
    /\ batch_requests # <<>>

\* C16: while a model call of _process_batch is in progress, a caller's submit step
\* that puts a request on request_queue can be taken.
C16_SubmitDuringModelCall ==
    (pc \in Embedding_states /\ Len(requests) < MaxRequests) =>
        ENABLED (EmbedImageAsync \/ EmbedTextAsync)

\* C17: a step of the bulk path (the call of embed_texts_batch_endpoint starting or
\* ending) leaves request_queue, the batch being collected, the position of the loop,
\* every request and its response_queue, and the record of the formed batches and
\* their payloads unchanged.
C17_BulkPathBypassesScheduler ==
    [][bulk' # bulk =>
          UNCHANGED <<request_queue, batch_requests, pc, deadline, requests,
                      response_queue, delivered, caller, last_batch, calls>>]_vars

\* A bulk call with a text runs while the loop collects a batch whose caller waits.
C17_BulkCallWhileCollecting ==
    /\ bulk.running
    /\ bulk.texts # <<>>
    /\ pc = "collect"
    /\ batch_requests # <<>>
    /\ \E r \in Range(batch_requests) : caller[r].state = "waiting"

\* C18: a request is returned by a get() of the loop at most once, and once it has
\* been it is never on request_queue again, whatever became of its batch; a request
\* that has a result is in no batch but the one being processed.
C18_NoRequestBatchedTwice ==
    \A r \in DOMAIN requests :
        /\ batched[r] <= 1
        /\ r \in Range(request_queue) => batched[r] = 0
        /\ (delivered[r] # <<>> /\ r \in Range(batch_requests)) =>
               pc \in Embedding_states

\* The first request got a Failure and its caller raised; the loop collects the next
\* batch, which holds the second request only.
C18_FailedRequestStaysOut ==
    /\ Len(requests) = 2
    /\ delivered[1] # <<>> /\ ~delivered[1][1].success
    /\ caller[1].state = "raised"
    /\ pc = "collect"
    /\ batch_requests = <<2>>

\* C19: the deadline is set when the first request of a batch is dequeued, to that
\* instant (the origin of now) plus batch_timeout_ms; no step of the collecting
\* phase changes it, and a later request joins the batch only before it.
C19_DeadlineFixedAtFirstDequeue ==
    [][/\ (pc # "collect" /\ pc' = "collect") =>
              now' = 0 /\ deadline' = batch_timeout_ms
       /\ (pc = "collect" /\ pc' = "collect") => deadline' = deadline
       /\ (pc = "collect" /\ Len(batch_requests') > Len(batch_requests)) =>
              now < deadline]_vars

\* With batch_timeout_ms = 2 a second request arrived 1 ms after the first dequeue
\* and joined the batch; the deadline is still 2.
C19_LateRequestJoined ==
    /\ pc = "collect"
    /\ batch_requests = <<1, 2>>
    /\ waited[1] = 1 /\ waited[2] = 0
    /\ now = 1
    /\ deadline = 2

\* C20: after any sequence of start_processing and stop_processing calls the tasks
\* created and not cancelled are one if a task is recorded and none otherwise.
C20_AtMostOneTask ==
    /\ live_tasks \in {0, 1}
    /\ processing_task <=> live_tasks = 1
    /\ processing_task <=> pc # "none"

\* stop_processing dropped a batch and start_processing was called again: one task.
C20_RestartedAfterStop ==
    /\ last_batch.cancelled /\ ~last_batch.faulted
    /\ processing_task
    /\ live_tasks = 1

\* The model invocations of _process_batch that have not ended.
RunningCalls == {i \in DOMAIN calls : calls[i].outcome = "running"}

\* C21: at most one model invocation is in progress at any time, counting the one
\* of the bulk endpoint; a batch is in dispatch exactly while one of its calls
\* runs, and until _process_batch has returned no get() of the loop returns a
\* request and the batch in dispatch stays the last one formed.
C21_InvocationsNeverOverlap ==
    /\ [](/\ Cardinality(RunningCalls) + (IF bulk.running THEN 1 ELSE 0) <= 1
          /\ pc \in Embedding_states <=> RunningCalls # {}
          /\ pc \in Embedding_states =>
                 Handed /\ batch_requests = last_batch.requests)
    /\ [][(pc \in Embedding_states) =>
              (batched' = batched /\ last_batch' = last_batch)]_vars

\* A model call runs for a batch of one request while the next request is queued
\* and the batch had room for it.
C21_NextRequestWaitsForDispatch ==
    /\ pc \in Embedding_states
    /\ Cardinality(RunningCalls) = 1
    /\ request_queue # <<>>
    /\ Len(batch_requests) < max_batch_size

\* C22: every request on request_queue has no result, has never been dequeued and
\* its caller waits; a step after which no task is recorded puts no result on any
\* response_queue, dequeues nothing and leaves the queued requests in place; and
\* every get() of the loop returns the head of request_queue, the oldest request
\* queued, whenever it was put there.
C22_QueuedRequestsKeptForNextTask ==
    /\ [](\A r \in Range(request_queue) :
              delivered[r] = <<>> /\ caller[r].state = "waiting" /\ batched[r] = 0)
    /\ [][/\ ~processing_task' =>
                 /\ \A r \in DOMAIN delivered : delivered'[r] = delivered[r]
                 /\ \A r \in DOMAIN batched : batched'[r] = batched[r]
                 /\ Len(request_queue') >= Len(request_queue)
                 /\ SubSeq(request_queue', 1, Len(request_queue)) = request_queue
          /\ (\E r \in DOMAIN batched : batched'[r] # batched[r]) =>
                 /\ processing_task
                 /\ request_queue # <<>>
                 /\ batched' = [batched EXCEPT ![Head(request_queue)] = 1]
                 /\ request_queue' = Tail(request_queue)
                 /\ \A q \in Range(request_queue') : q > Head(request_queue)]_vars

\* Two requests are on request_queue in put order with no task recorded; neither
\* has a result and both callers wait.
C22_QueuedWhileStopped ==
    /\ ~processing_task
    /\ pc = "none"
    /\ request_queue = <<1, 2>>
    /\ \A r \in {1, 2} : caller[r].state = "waiting" /\ delivered[r] = <<>>
====
